---- MODULE Spec2Model ----
(***************************************************************************)
(* Model of ExtensionDependencyChecker                                     *)
(* (vs/workbench/contrib/extensions/electron-browser/                      *)
(*  extensionsDependencyChecker.ts).                                       *)
(*                                                                         *)
(* A run is one invocation of checkAndInstallMissingDependencies or of     *)
(* installMissingDependencies.  Every `await` of the source is a place     *)
(* where a run is suspended; an action is the synchronous code that runs   *)
(* when the awaited host call settles, up to the next `await`.             *)
(***************************************************************************)
EXTENDS Integers, Sequences, FiniteSets, TLC

(* ---------------------------- bounds ----------------------------------- *)
MaxRuns == 3
MaxEvents == 2
MaxDeps == 2

(* ----------------------- identifiers (strings) ------------------------- *)
\* An identifier string is a tuple of characters, so that letter case is
\* part of the value and toLowerCase is a real conversion.
UpperChars == <<"A", "B", "C", "P">>
LowerChars == <<"a", "b", "c", "p">>

toLowerCaseChar(c) ==
    IF \E i \in 1..Len(UpperChars) : UpperChars[i] = c
    THEN LowerChars[CHOOSE i \in 1..Len(UpperChars) : UpperChars[i] = c]
    ELSE c

toLowerCase(s) == [i \in 1..Len(s) |-> toLowerCaseChar(s[i])]

\* Optional property of a running extension (extensionDependencies?):
\* <<>> is `undefined`, <<deps>> is a defined array deps.
Undefined == <<>>
Defined(x) == <<x>>

Range(s) == {s[i] : i \in 1..Len(s)}

\* Set<string>.add on an insertion-ordered set, kept as a duplicate-free
\* sequence: strict (case-sensitive) string equality.
SetAdd(set, x) == IF x \in Range(set) THEN set ELSE Append(set, x)

\* values(set): the elements in insertion order.
values(set) == set

(* -------------------- getAllMissingDependencies ------------------------ *)
RECURSIVE runningExtensionsIdsOf(_)
runningExtensionsIdsOf(runningExtensions) ==
    IF runningExtensions = <<>> THEN {}
    ELSE runningExtensionsIdsOf(Tail(runningExtensions))
            \cup {toLowerCase(Head(runningExtensions).identifier)}

\* The predicate of line 55 with the lower-casing of the dependency dropped.
IsMissingCaseSensitive(runningExtensionsIds, dep) == dep \notin runningExtensionsIds

IsMissing(runningExtensionsIds, dep) == toLowerCase(dep) \notin runningExtensionsIds

RECURSIVE forEachDep(_, _, _)
forEachDep(deps, runningExtensionsIds, missingDependencies) ==
    IF deps = <<>> THEN missingDependencies
    ELSE forEachDep(Tail(deps), runningExtensionsIds,
                    IF IsMissing(runningExtensionsIds, Head(deps))
                    THEN SetAdd(missingDependencies, Head(deps))
                    ELSE missingDependencies)

RECURSIVE forEachExtension(_, _, _)
forEachExtension(exts, runningExtensionsIds, missingDependencies) ==
    IF exts = <<>> THEN missingDependencies
    ELSE forEachExtension(Tail(exts), runningExtensionsIds,
            IF Head(exts).extensionDependencies # Undefined
            THEN forEachDep(Head(exts).extensionDependencies[1],
                            runningExtensionsIds, missingDependencies)
            ELSE missingDependencies)

getAllMissingDependencies(runningExtensions) ==
    values(forEachExtension(runningExtensions,
                            runningExtensionsIdsOf(runningExtensions), <<>>))

(* ----------------- getUninstalledMissingDependencies ------------------- *)
\* Identity-normalised comparison of two extension identifiers.
areSameExtensions(a, b) == toLowerCase(a.id) = toLowerCase(b.id)

\* The filter of line 45 with `every` replaced by `some`.
IsUninstalledSome(localExtensions, id) ==
    \E l \in localExtensions : ~areSameExtensions(l.identifier, [id |-> id])

IsUninstalled(localExtensions, id) ==
    \A l \in localExtensions : ~areSameExtensions(l.identifier, [id |-> id])

filterUninstalled(allMissingDependencies, localExtensions) ==
    SelectSeq(allMissingDependencies, LAMBDA id : IsUninstalled(localExtensions, id))

(* ------------------------------ state ---------------------------------- *)
VARIABLES
    runningExtensions,  \* what extensionService.getExtensions() resolves to
    localExtensions,    \* what extensionsWorkbenchService.queryLocal() resolves to
    autoInstall,        \* value of extensions.autoInstallMissingDependencies
    subscribed,         \* the onDidChangeConfiguration listener is registered
    nEvents,            \* number of configuration-change events fired so far
    lastEvent,          \* whether the latest of them affected the watched key
    runs                \* the invocations started so far, each at its await

vars == <<runningExtensions, localExtensions, autoInstall, subscribed, nEvents, lastEvent, runs>>

Id(a, b) == <<a, b>>
Extension(id, deps) == [identifier |-> id, extensionDependencies |-> deps]
Local(id) == [identifier |-> [id |-> id]]

\* The marketplace catalogue the gallery service answers from.
GalleryCatalogue == << Local(Id("p", "b")), Local(Id("p", "c")) >>

FinishedNotification ==
    [severity |-> "Info", message |-> "finished installing missing deps",
     actions |-> <<"reloadWindow">>]
NoMissingNotification ==
    [severity |-> "Info", message |-> "no missing deps", actions |-> <<>>]

\* A fresh invocation, suspended at its first await (getExtensions, line 49).
NewRun(kind) ==
    [kind |-> kind, pc |-> "getExtensions",
     allMissingDependencies |-> <<>>, missingDependencies |-> <<>>,
     calledInstall |-> FALSE,
     galleryQueries |-> <<>>, extensions |-> <<>>, installs |-> <<>>,
     notifications |-> <<>>]

RunIds == 1..Len(runs)

NumChecks == Cardinality({r \in RunIds : runs[r].kind = "check"})

(* ------------------------------ inputs --------------------------------- *)
RunningIds == {Id("p", "a"), Id("P", "B")}
DepIds == {Id("p", "b"), Id("p", "B"), Id("P", "a"), Id("p", "c")}
LocalIds == {Id("P", "b"), Id("p", "a")}

SeqsUpTo(S, n) == UNION {[1..k -> S] : k \in 0..n}

DepInputs == {Undefined} \cup {Defined(d) : d \in SeqsUpTo(DepIds, MaxDeps)}

\* Running extensions have pairwise different identifiers: the lists of
\* identifiers are the duplicate-free sequences over RunningIds.
DistinctSeqs(S) ==
    {s \in SeqsUpTo(S, Cardinality(S)) : \A i, j \in 1..Len(s) : i # j => s[i] # s[j]}

LocalInputs == SUBSET {Local(id) : id \in LocalIds}

\* The installation the triggers and their overlap are explored on: one
\* running extension with one dependency, neither running nor installed.
RunningScenario ==
    << Extension(Id("p", "a"), Defined(<<Id("p", "B")>>)) >>

\* The installation the install runs are explored on: two such dependencies.
RunningScenarioTwo ==
    << Extension(Id("p", "a"), Defined(<<Id("p", "B"), Id("p", "c")>>)) >>

(* ------------------------------- Init ---------------------------------- *)
\* The state when the constructor returns (lines 29-39): the command is
\* registered, the initial check is suspended at its first await and the
\* configuration listener is registered.
Init ==
    /\ runningExtensions = RunningScenario
    /\ localExtensions = {}
    /\ autoInstall \in BOOLEAN
    /\ subscribed = TRUE
    /\ nEvents = 0
    /\ lastEvent = "none"
    /\ runs = << NewRun("check") >>

\* The same moment on the installation with two missing dependencies.
InitInstall ==
    /\ runningExtensions = RunningScenarioTwo
    /\ localExtensions = {}
    /\ autoInstall \in BOOLEAN
    /\ subscribed = TRUE
    /\ nEvents = 0
    /\ lastEvent = "none"
    /\ runs = << NewRun("check") >>

InitFn ==
    /\ \E ids \in DistinctSeqs(RunningIds) :
          \E deps \in [1..Len(ids) -> DepInputs] :
              runningExtensions = [i \in 1..Len(ids) |-> Extension(ids[i], deps[i])]
    /\ localExtensions \in LocalInputs
    /\ autoInstall = FALSE
    /\ subscribed = TRUE
    /\ nEvents = 0
    /\ lastEvent = "none"
    /\ runs = << NewRun("check") >>

(* ------------------------------ helpers -------------------------------- *)
SetRun(r, run) == [runs EXCEPT ![r] = run]

\* installMissingDependencies() called without await (line 67) or by the
\* command (line 30): it runs synchronously up to its first await.
installMissingDependencies(rs) == Append(rs, NewRun("install"))

\* checkAndInstallMissingDependencies() called by the constructor (line 38)
\* or by the configuration listener (line 39).
checkAndInstallMissingDependencies(rs) == Append(rs, NewRun("check"))

\* Condition of line 66 with the configuration flag ignored.
ShouldInstallIgnoringFlag(missingDependencies, flag) == Len(missingDependencies) > 0

\* Condition of line 66.
ShouldInstall(missingDependencies, flag) == Len(missingDependencies) > 0 /\ flag

\* Condition of line 73 inverted off by one: a query even for an empty list.
HasMissingAlways(missingDependencies) == TRUE

\* Condition of line 73.
HasMissing(missingDependencies) == Len(missingDependencies) # 0

\* The first page the gallery may answer a query with: catalogue entries
\* matching a queried name, at most pageSize of them, in catalogue order.
SubSeqs(s) ==
    {SelectSeq(s, LAMBDA e : e \in keep) : keep \in SUBSET Range(s)}

FirstPages(query) ==
    {page \in SubSeqs(GalleryCatalogue) :
        /\ Len(page) <= query.pageSize
        /\ \A i \in 1..Len(page) :
              \E n \in Range(query.names) :
                  toLowerCase(n) = toLowerCase(page[i].identifier.id)}

\* The same with in-flight tracking: an extension some run is already
\* installing is not installed again.
IssueInstallsOnce(extensions) ==
    LET pending(r) == {runs[r].installs[i].extension :
                          i \in {k \in 1..Len(runs[r].installs) :
                                    runs[r].installs[k].status = "pending"}}
        busy == UNION {pending(r) : r \in RunIds}
        fresh == SelectSeq(extensions, LAMBDA e : e \notin busy)
    IN  [i \in 1..Len(fresh) |-> [extension |-> fresh[i], status |-> "pending"]]

\* extensions.map(extension => install(extension)) of line 76: one install
\* call per element, all issued before Promise.all is awaited.
IssueInstalls(extensions) ==
    [i \in 1..Len(extensions) |-> [extension |-> extensions[i], status |-> "pending"]]

\* Promise.all replaced by Promise.race: fulfilled once any install is.
AllInstalledAny(installs) == \E i \in 1..Len(installs) : installs[i].status = "ok"

\* Promise.all (line 76) fulfils once every install has.
AllInstalled(installs) == \A i \in 1..Len(installs) : installs[i].status = "ok"

(* ------------------------------ actions -------------------------------- *)
\* getExtensions() resolves (line 49); lines 50-61 run, then queryLocal()
\* is called (line 44).
getExtensionsResolved(r) ==
    /\ runs[r].pc = "getExtensions"
    /\ runs' = SetRun(r, [runs[r] EXCEPT
                 !.allMissingDependencies = getAllMissingDependencies(runningExtensions),
                 !.pc = "queryLocal"])
    /\ UNCHANGED <<runningExtensions, localExtensions, autoInstall, subscribed, nEvents, lastEvent>>

\* queryLocal() resolves in a check (lines 45, 65-68).
checkQueryLocalResolved(r) ==
    /\ runs[r].pc = "queryLocal"
    /\ runs[r].kind = "check"
    /\ LET missingDependencies ==
               filterUninstalled(runs[r].allMissingDependencies, localExtensions)
           call == ShouldInstall(missingDependencies, autoInstall)
           done == SetRun(r, [runs[r] EXCEPT
                       !.missingDependencies = missingDependencies,
                       !.calledInstall = call,
                       !.pc = "done"])
       IN  /\ call => Len(runs) < MaxRuns
           /\ runs' = IF call THEN installMissingDependencies(done) ELSE done
    /\ UNCHANGED <<runningExtensions, localExtensions, autoInstall, subscribed, nEvents, lastEvent>>

\* queryLocal() resolves in an install run (lines 45, 72-74, 86-88).
installQueryLocalResolved(r) ==
    /\ runs[r].pc = "queryLocal"
    /\ runs[r].kind = "install"
    /\ LET missingDependencies ==
               filterUninstalled(runs[r].allMissingDependencies, localExtensions)
       IN  runs' = SetRun(r,
             IF HasMissing(missingDependencies)
             THEN [runs[r] EXCEPT
                     !.missingDependencies = missingDependencies,
                     !.galleryQueries = Append(@,
                         [names |-> missingDependencies,
                          pageSize |-> Len(missingDependencies)]),
                     !.pc = "queryGallery"]
             ELSE [runs[r] EXCEPT
                     !.missingDependencies = missingDependencies,
                     !.notifications = Append(@, NoMissingNotification),
                     !.pc = "done"])
    /\ UNCHANGED <<runningExtensions, localExtensions, autoInstall, subscribed, nEvents, lastEvent>>

\* An empty first page reported like an empty list of missing dependencies.
EmptyFirstPageNotified(run) ==
    [run EXCEPT !.notifications = Append(@, NoMissingNotification), !.pc = "done"]

\* if (extensions.length) of line 75 has no else: the function returns.
EmptyFirstPage(run) == [run EXCEPT !.pc = "done"]

\* queryGallery() resolves with some first page (lines 74-76).
queryGalleryResolved(r) ==
    /\ runs[r].pc = "queryGallery"
    /\ \E firstPage \in FirstPages(runs[r].galleryQueries[1]) :
          runs' = SetRun(r,
             IF Len(firstPage) # 0
             THEN [runs[r] EXCEPT
                     !.extensions = firstPage,
                     !.installs = IssueInstalls(firstPage),
                     !.pc = "installing"]
             ELSE EmptyFirstPage([runs[r] EXCEPT !.extensions = firstPage]))
    /\ UNCHANGED <<runningExtensions, localExtensions, autoInstall, subscribed, nEvents, lastEvent>>

\* One install() promise fulfils: the extension is now installed locally.
\* Nothing in the source cancels an install, so it may settle whatever
\* became of the run that issued it.
installResolved(r, i) ==
    /\ runs[r].installs[i].status = "pending"
    /\ runs' = SetRun(r, [runs[r] EXCEPT !.installs[i].status = "ok"])
    /\ localExtensions' = localExtensions
            \cup {[identifier |-> runs[r].installs[i].extension.identifier]}
    /\ UNCHANGED <<runningExtensions, autoInstall, subscribed, nEvents, lastEvent>>

\* The rejection caught and dropped around the await of line 76.
AfterRejectionCaught(pc) == IF pc = "installing" THEN "done" ELSE pc

\* The first rejection rejects Promise.all and, uncaught, the whole run;
\* later rejections of the same batch find it already rejected.
AfterRejection(pc) == IF pc = "installing" THEN "rejected" ELSE pc

\* One install() promise rejects: Promise.all (line 76) rejects at once, the
\* await throws and installMissingDependencies rejects; no catch exists.
installRejected(r, i) ==
    /\ runs[r].installs[i].status = "pending"
    /\ runs' = SetRun(r, [runs[r] EXCEPT
                 !.installs[i].status = "failed",
                 !.pc = AfterRejection(@)])
    /\ UNCHANGED <<runningExtensions, localExtensions, autoInstall, subscribed, nEvents, lastEvent>>

\* Promise.all fulfils (line 76): the notification of lines 77-84 is shown.
promiseAllResolved(r) ==
    /\ runs[r].pc = "installing"
    /\ AllInstalled(runs[r].installs)
    /\ runs' = SetRun(r, [runs[r] EXCEPT
                 !.notifications = Append(@, FinishedNotification),
                 !.pc = "done"])
    /\ UNCHANGED <<runningExtensions, localExtensions, autoInstall, subscribed, nEvents, lastEvent>>

\* getExtensions(), queryLocal() or queryGallery() rejects: the rejection
\* propagates through every await of the run (no try/catch in the file).
hostCallRejected(r) ==
    /\ runs[r].pc \in {"getExtensions", "queryLocal", "queryGallery"}
    /\ runs' = SetRun(r, [runs[r] EXCEPT !.pc = "rejected"])
    /\ UNCHANGED <<runningExtensions, localExtensions, autoInstall, subscribed, nEvents, lastEvent>>

\* The listener of line 39 with the affectsConfiguration test dropped.
ListenerIgnoringKey(affects, rs) == checkAndInstallMissingDependencies(rs)

\* The listener of line 39.
Listener(affects, rs) == IF affects THEN checkAndInstallMissingDependencies(rs) ELSE rs

\* The configuration service fires onDidChangeConfiguration.  An event that
\* affects extensions.autoInstallMissingDependencies carries its new value.
configurationChanged(affects, value) ==
    /\ nEvents < MaxEvents
    /\ autoInstall' = IF affects THEN value ELSE autoInstall
    /\ nEvents' = nEvents + 1
    /\ lastEvent' = IF affects THEN "affects" ELSE "other"
    /\ IF subscribed
       THEN /\ Len(Listener(affects, runs)) <= MaxRuns
            /\ runs' = Listener(affects, runs)
       ELSE runs' = runs
    /\ UNCHANGED <<runningExtensions, localExtensions, subscribed>>

\* The command workbench.extensions.installMissingDepenencies is run
\* (line 30); its registration is not tied to the contribution's disposal.
commandInvoked ==
    /\ Len(runs) < MaxRuns
    /\ runs' = installMissingDependencies(runs)
    /\ UNCHANGED <<runningExtensions, localExtensions, autoInstall, subscribed, nEvents, lastEvent>>

\* dispose(): the listener registered through _register (line 39) is removed.
dispose ==
    /\ subscribed
    /\ subscribed' = FALSE
    /\ UNCHANGED <<runningExtensions, localExtensions, autoInstall, nEvents, lastEvent, runs>>

(* --------------------------- specifications ---------------------------- *)
Next ==
    \/ \E r \in RunIds : getExtensionsResolved(r)
    \/ \E r \in RunIds : checkQueryLocalResolved(r)
    \/ \E r \in RunIds : installQueryLocalResolved(r)
    \/ \E r \in RunIds : queryGalleryResolved(r)
    \/ \E r \in RunIds : \E i \in 1..Len(runs[r].installs) : installResolved(r, i)
    \/ \E r \in RunIds : \E i \in 1..Len(runs[r].installs) : installRejected(r, i)
    \/ \E r \in RunIds : promiseAllResolved(r)
    \/ \E r \in RunIds : hostCallRejected(r)
    \/ \E affects \in BOOLEAN : \E value \in BOOLEAN : configurationChanged(affects, value)
    \/ commandInvoked
    \/ dispose

Spec == Init /\ [][Next]_vars

\* The runs themselves, started by the constructor and by the command.
NextInstall ==
    \/ \E r \in RunIds : getExtensionsResolved(r)
    \/ \E r \in RunIds : checkQueryLocalResolved(r)
    \/ \E r \in RunIds : installQueryLocalResolved(r)
    \/ \E r \in RunIds : queryGalleryResolved(r)
    \/ \E r \in RunIds : \E i \in 1..Len(runs[r].installs) : installResolved(r, i)
    \/ \E r \in RunIds : \E i \in 1..Len(runs[r].installs) : installRejected(r, i)
    \/ \E r \in RunIds : promiseAllResolved(r)
    \/ \E r \in RunIds : hostCallRejected(r)
    \/ commandInvoked

SpecInstall == InitInstall /\ [][NextInstall]_vars

\* The pure computations on every input: the initial check of each
\* installation is run up to the end of getUninstalledMissingDependencies.
NextFn ==
    \/ \E r \in RunIds : getExtensionsResolved(r)
    \/ \E r \in RunIds : checkQueryLocalResolved(r)

SpecFn == InitFn /\ [][NextFn]_vars

(* ------------------------------- claims -------------------------------- *)
InstallRuns == {r \in RunIds : runs[r].kind = "install"}
CheckRuns == {r \in RunIds : runs[r].kind = "check"}

\* The dependency identifiers declared by the running extensions.
DeclaredDependencies ==
    UNION {Range(runningExtensions[i].extensionDependencies[1]) :
             i \in {k \in 1..Len(runningExtensions) :
                      runningExtensions[k].extensionDependencies # Undefined}}

RunningIdsAnyCase == {toLowerCase(runningExtensions[i].identifier) :
                        i \in 1..Len(runningExtensions)}

ComputedAll(r) == runs[r].pc \in {"queryLocal", "done"}

\* C4: getAllMissingDependencies returns exactly the declared dependency
\* identifiers whose lower-case form is not the lower-case identifier of a
\* running extension; no identifier of a running extension is returned in
\* any casing, and extensions without declared dependencies add nothing.
C4_AllMissingExact ==
    \A r \in RunIds : ComputedAll(r) =>
        /\ Range(runs[r].allMissingDependencies) =
              {d \in DeclaredDependencies : toLowerCase(d) \notin RunningIdsAnyCase}
        /\ \A d \in Range(runs[r].allMissingDependencies) :
              \A i \in 1..Len(runningExtensions) :
                  toLowerCase(d) # toLowerCase(runningExtensions[i].identifier)
        /\ (\A i \in 1..Len(runningExtensions) :
               runningExtensions[i].extensionDependencies = Undefined)
             => runs[r].allMissingDependencies = <<>>

\* A running extension is declared as a dependency in another letter case,
\* next to a dependency that is really missing.
C4_Witness ==
    \E r \in RunIds :
        /\ ComputedAll(r)
        /\ runs[r].allMissingDependencies # <<>>
        /\ \E d \in DeclaredDependencies :
              /\ toLowerCase(d) \in RunningIdsAnyCase
              /\ \A i \in 1..Len(runningExtensions) : d # runningExtensions[i].identifier

\* C5: the result of getUninstalledMissingDependencies is a subset of the
\* result of getAllMissingDependencies, and an identifier is dropped if and
\* only if areSameExtensions matches it with a locally installed extension.
C5_UninstalledExact ==
    \A r \in RunIds : runs[r].pc = "done" =>
        /\ Range(runs[r].missingDependencies) \subseteq Range(runs[r].allMissingDependencies)
        /\ \A d \in Range(runs[r].allMissingDependencies) :
              d \notin Range(runs[r].missingDependencies)
                <=> \E l \in localExtensions : areSameExtensions(l.identifier, [id |-> d])

\* One missing identifier is dropped, in another letter case than the
\* installed extension's, and another is kept.
C5_Witness ==
    \E r \in RunIds :
        /\ runs[r].pc = "done"
        /\ runs[r].missingDependencies # <<>>
        /\ runs[r].missingDependencies # runs[r].allMissingDependencies
        /\ \E d \in Range(runs[r].allMissingDependencies) :
              /\ d \notin Range(runs[r].missingDependencies)
              /\ \A l \in localExtensions : l.identifier.id # d

\* C10: getAllMissingDependencies holds a single entry for each missing
\* dependency, also when it is declared several times in differing letter
\* case.
C10_SingleEntryPerDependency ==
    \A r \in RunIds : ComputedAll(r) =>
        \A i, j \in 1..Len(runs[r].allMissingDependencies) :
            i # j => toLowerCase(runs[r].allMissingDependencies[i])
                        # toLowerCase(runs[r].allMissingDependencies[j])

IssuedExtensions(run) == [i \in 1..Len(run.installs) |-> run.installs[i].extension]

\* C1: when a check resumes after queryLocal it calls
\* installMissingDependencies if and only if the list it computed is
\* non-empty and the configuration flag is true at that moment; the check
\* itself issues no gallery query, no install call and no notification, and
\* when it does not call installMissingDependencies nothing is started.
C1_CheckInstallsIff ==
    [][\A r \in RunIds :
         (runs[r].kind = "check" /\ runs[r].pc = "queryLocal" /\ runs'[r].pc = "done") =>
            LET wanted == Len(runs'[r].missingDependencies) > 0 /\ autoInstall
            IN  /\ runs'[r].calledInstall <=> wanted
                /\ IF wanted
                   THEN /\ Len(runs') = Len(runs) + 1
                        /\ runs'[Len(runs')] = NewRun("install")
                   ELSE Len(runs') = Len(runs)
                /\ runs'[r].galleryQueries = <<>>
                /\ runs'[r].installs = <<>>
                /\ runs'[r].notifications = <<>>
                /\ \A q \in RunIds \ {r} : runs'[q] = runs[q]
                /\ localExtensions' = localExtensions]_vars

\* Two checks have finished: one called installMissingDependencies, the
\* other found a missing dependency with the flag off and called nothing.
C1_Witness ==
    \E r1, r2 \in CheckRuns :
        /\ runs[r1].pc = "done" /\ runs[r1].calledInstall
        /\ runs[r2].pc = "done" /\ ~runs[r2].calledInstall
        /\ runs[r2].missingDependencies # <<>>

\* C2: an install run whose list is non-empty and whose gallery query
\* returned N > 0 extensions has issued one install call for each of the N,
\* all of them at once; it shows the 'finished' notification with the
\* reload action exactly once when it completes, never earlier, and only
\* with every one of the N installs succeeded.
C2_InstallsAllThenNotifiesOnce ==
    \A r \in InstallRuns :
        (runs[r].missingDependencies # <<>> /\ runs[r].extensions # <<>>) =>
            /\ IssuedExtensions(runs[r]) = runs[r].extensions
            /\ runs[r].pc \in {"installing", "done", "rejected"}
            /\ IF runs[r].pc = "done"
               THEN /\ Len(runs[r].notifications) = 1
                    /\ runs[r].notifications[1].message = FinishedNotification.message
                    /\ "reloadWindow" \in Range(runs[r].notifications[1].actions)
               ELSE runs[r].notifications = <<>>
            /\ runs[r].notifications # <<>> =>
                  \A i \in 1..Len(runs[r].installs) : runs[r].installs[i].status = "ok"

\* A run with two installs issued has shown its notification, and another
\* run has both of its installs issued and still pending.
C2_Witness ==
    /\ \E r \in InstallRuns :
          /\ Len(runs[r].extensions) = 2
          /\ runs[r].notifications = << FinishedNotification >>
    /\ \E r \in InstallRuns :
          /\ Len(runs[r].extensions) = 2
          /\ \A i \in 1..2 : runs[r].installs[i].status = "pending"

\* C3: an install run whose list is empty shows the 'no missing
\* dependencies' notification exactly once and issues no gallery query and
\* no install call; no other run shows that notification.
C3_EmptyListNotifiesOnce ==
    \A r \in InstallRuns :
        /\ (runs[r].pc \in {"queryGallery", "installing", "done"}
              /\ runs[r].missingDependencies = <<>>) =>
              /\ runs[r].pc = "done"
              /\ runs[r].notifications = << NoMissingNotification >>
              /\ runs[r].galleryQueries = <<>>
              /\ runs[r].installs = <<>>
        /\ NoMissingNotification \in Range(runs[r].notifications) =>
              runs[r].missingDependencies = <<>>

\* An install run found nothing missing (after an earlier run installed it).
C3_Witness ==
    \E r \in InstallRuns :
        /\ runs[r].pc = "done"
        /\ runs[r].missingDependencies = <<>>
        /\ runs[r].allMissingDependencies # <<>>

\* C6: when one of the installs of a batch rejects, the run rejects and
\* shows no 'finished' notification; the other installs of the batch are
\* left as they are (a pending one can still settle) and an install that
\* succeeded stays installed.
C6_RejectionFailsRunOnly ==
    /\ [](\A r \in InstallRuns :
            (\E i \in 1..Len(runs[r].installs) : runs[r].installs[i].status = "failed") =>
                /\ runs[r].pc = "rejected"
                /\ runs[r].notifications = <<>>
                /\ \A j \in 1..Len(runs[r].installs) :
                      runs[r].installs[j].status = "pending" => ENABLED installResolved(r, j))
    /\ [][\A r \in InstallRuns : \A i \in 1..Len(runs[r].installs) :
            /\ (runs[r].installs[i].status = "pending"
                  /\ runs'[r].installs[i].status = "failed") =>
                  /\ \A j \in 1..Len(runs[r].installs) \ {i} :
                        runs'[r].installs[j] = runs[r].installs[j]
                  /\ localExtensions' = localExtensions
            /\ runs[r].installs[i].status = "ok" =>
                  /\ runs'[r].installs[i].status = "ok"
                  /\ [identifier |-> runs[r].installs[i].extension.identifier]
                        \in localExtensions']_vars

\* A run was rejected by one install while the other install of the same
\* batch succeeded.
C6_Witness ==
    \E r \in InstallRuns :
        /\ runs[r].pc = "rejected"
        /\ \E i, j \in 1..Len(runs[r].installs) :
              /\ runs[r].installs[i].status = "failed"
              /\ runs[r].installs[j].status = "ok"

\* C7: when the gallery answers a non-empty list of names with an empty
\* first page, the run completes without an install call and without any
\* notification.
C7_EmptyFirstPageSilent ==
    [][\A r \in InstallRuns :
         (runs[r].pc = "queryGallery" /\ runs'[r].pc \notin {"queryGallery", "rejected"}
            /\ runs'[r].extensions = <<>>) =>
              /\ runs[r].missingDependencies # <<>>
              /\ runs'[r].pc = "done"
              /\ runs'[r].installs = <<>>
              /\ runs'[r].notifications = <<>>
              /\ localExtensions' = localExtensions
              /\ Len(runs') = Len(runs)]_vars

\* A run queried the gallery for two names, got nothing and is done.
C7_Witness ==
    \E r \in InstallRuns :
        /\ runs[r].pc = "done"
        /\ Len(runs[r].galleryQueries) = 1
        /\ runs[r].galleryQueries[1].pageSize = 2
        /\ runs[r].extensions = <<>>

\* C8: construction starts one check; afterwards a check is started by
\* exactly the configuration-change events that affect the watched key and
\* are fired while the listener is registered, one check per event; after
\* disposal no event starts a check.
C8_ChecksFollowEvents ==
    /\ NumChecks = 1
    /\ [][/\ NumChecks' = NumChecks +
               (IF nEvents' # nEvents /\ lastEvent' = "affects" /\ subscribed
                THEN 1 ELSE 0)
          /\ ~subscribed => (~subscribed' /\ NumChecks' = NumChecks)]_vars

\* One affecting event started a second check; after the disposal another
\* affecting event started none.
C8_Witness ==
    /\ ~subscribed
    /\ nEvents = 2
    /\ lastEvent = "affects"
    /\ NumChecks = 2

PendingExtensions(r) ==
    {runs[r].installs[i].extension :
        i \in {k \in 1..Len(runs[r].installs) : runs[r].installs[k].status = "pending"}}

\* C9: runs are neither serialised nor de-duplicated: a trigger is accepted
\* whatever the other runs are doing, and a run issues an install call for
\* every extension of its first page, also for one that another run is
\* installing.
C9_RunsIndependent ==
    /\ Len(runs) < MaxRuns => ENABLED commandInvoked
    /\ (Len(runs) < MaxRuns /\ nEvents < MaxEvents /\ subscribed)
          => ENABLED configurationChanged(TRUE, TRUE)
    /\ \A r \in InstallRuns :
          Range(runs[r].extensions) \subseteq Range(IssuedExtensions(runs[r]))

\* Two runs have an install call pending for the same gallery extension.
C9_Witness ==
    \E r1, r2 \in InstallRuns :
        /\ r1 # r2
        /\ PendingExtensions(r1) \cap PendingExtensions(r2) # {}

====
